---- MODULE Spec2Model ----
(***************************************************************************)
(* State-machine model of the exodus-gw publish pipeline:                  *)
(*   - item validation (schemas.py) and Publish.resolve_links              *)
(*     (models/publish.py), specification Spec;                            *)
(*   - the per-profile S3 client pool (deps.py), specification PoolSpec;   *)
(*   - AutoindexEnricher.run and PublishContentFetcher                     *)
(*     (worker/autoindex.py), specification IndexSpec;                     *)
(*   - the commit job that runs link resolution, then autoindex, and sets  *)
(*     Publish.state, specification CommitSpec;                            *)
(*   - ItemBase.validate_item on request bodies, specification             *)
(*     ValidateSpec;                                                       *)
(*   - loggers_init (logging.py), specification LogSpec.                   *)
(* Python strings are TLA+ strings; a NULL column / Python None is the     *)
(* value None below.                                                       *)
(***************************************************************************)
EXTENDS Naturals, Sequences, FiniteSets, TLC

VARIABLES
    items,      \* rows of the "items" table visible in the session, in insertion order
    call,       \* record of the last Publish.resolve_links call (history)
    s3_queues,  \* deps.s3_queues: profile -> id of the registered queue (0: no entry)
    queues,     \* queue id -> content of that asyncio.LifoQueue (top of stack last)
    pc,         \* request -> position inside get_s3_client
    prof,       \* request -> env.aws_profile of the request
    localq,     \* request -> id of the queue bound to the local variable `queue`
    client,     \* request -> the local variable `client`
    got,        \* request -> the client on top of the profile's registered queue when
                \* the request received its client (history)
    waited,     \* the requests that found their queue empty in queue.get() (history)
    bucket,     \* keys uploaded to the S3 bucket by put_object
    repoTree,   \* repository root -> relative dirs the index generator yields for it
    run,        \* the AutoindexEnricher.run invocation in progress
    hist,       \* publish -> outcome of the last finished run on it (history)
    state,      \* publish -> Publish.state, and the stage of the publish's commit job
    req,        \* the last request body handed to ItemBase.validate_item, and its outcome
    root_logger, \* logging.getLogger(): its handlers, and the loggers_init calls made
    actor       \* CURRENT_PREFIX, CURRENT_MESSAGE, the wrapped calls in progress in
                \* the worker thread, and the records logged to "exodus-gw"

linkVars == <<items, call>>
poolVars == <<s3_queues, queues, pc, prof, localq, client, got, waited>>
indexVars == <<bucket, repoTree, run, hist>>
auxVars == <<state, req, root_logger, actor>>
vars == <<items, call, s3_queues, queues, pc, prof, localq, client, got, waited,
          bucket, repoTree, run, hist, state, req, root_logger, actor>>

-----------------------------------------------------------------------------
(* Python string helpers *)

None == "<None>"

Char(s, i) == SubSeq(s, i, i)

StartsWith(s, prefix) ==
    Len(s) >= Len(prefix) /\ SubSeq(s, 1, Len(prefix)) = prefix

EndsWith(s, suffix) ==
    Len(s) >= Len(suffix) /\ SubSeq(s, Len(s) - Len(suffix) + 1, Len(s)) = suffix

\* str.split("/")
RECURSIVE SplitSlash(_)
SplitSlash(s) ==
    IF \A i \in 1..Len(s) : Char(s, i) # "/"
    THEN <<s>>
    ELSE LET i == CHOOSE k \in 1..Len(s) :
                      Char(s, k) = "/" /\ \A j \in 1..(k - 1) : Char(s, j) # "/"
         IN  <<SubSeq(s, 1, i - 1)>> \o SplitSlash(SubSeq(s, i + 1, Len(s)))

\* "/".join(comps)
RECURSIVE JoinSlash(_)
JoinSlash(comps) ==
    IF comps = <<>> THEN ""
    ELSE IF Len(comps) = 1 THEN comps[1]
    ELSE comps[1] \o "/" \o JoinSlash(Tail(comps))

\* the component loop of posixpath.normpath
RECURSIVE NormComps(_, _, _)
NormComps(comps, new_comps, initial_slashes) ==
    IF comps = <<>> THEN new_comps
    ELSE LET comp == Head(comps)
             rest == Tail(comps)
         IN  IF comp \in {"", "."}
             THEN NormComps(rest, new_comps, initial_slashes)
             ELSE IF \/ comp # ".."
                     \/ (initial_slashes = 0 /\ new_comps = <<>>)
                     \/ (new_comps # <<>> /\ new_comps[Len(new_comps)] = "..")
             THEN NormComps(rest, Append(new_comps, comp), initial_slashes)
             ELSE IF new_comps # <<>>
             THEN NormComps(rest, SubSeq(new_comps, 1, Len(new_comps) - 1),
                            initial_slashes)
             ELSE NormComps(rest, new_comps, initial_slashes)

\* os.path.normpath (posixpath)
normpath(path) ==
    IF path = "" THEN "."
    ELSE LET initial_slashes ==
                 IF ~StartsWith(path, "/") THEN 0
                 ELSE IF StartsWith(path, "//") /\ ~StartsWith(path, "///") THEN 2
                 ELSE 1
             joined == JoinSlash(NormComps(SplitSlash(path), <<>>, initial_slashes))
             p == (IF initial_slashes = 2 THEN "//"
                   ELSE IF initial_slashes = 1 THEN "/" ELSE "") \o joined
         IN  IF p = "" THEN "." ELSE p

normalize_path(path) ==
    IF path # ""
    THEN LET p == normpath(path)
         IN  IF ~StartsWith(p, "/") THEN "/" \o p ELSE p
    ELSE path

-----------------------------------------------------------------------------
(* schemas.py: ItemBase.validate_item *)

HexDigits == {"0", "1", "2", "3", "4", "5", "6", "7", "8", "9",
              "a", "b", "c", "d", "e", "f"}

WordChars == HexDigits \cup
    {"g", "h", "i", "j", "k", "l", "m", "n", "o", "p", "q", "r", "s", "t",
     "u", "v", "w", "x", "y", "z", "_",
     "A", "B", "C", "D", "E", "F", "G", "H", "I", "J", "K", "L", "M", "N",
     "O", "P", "Q", "R", "S", "T", "U", "V", "W", "X", "Y", "Z"}

Sha256HexLen == 64

\* re.match(SHA256SUM_PATTERN, s): the pattern [0-9a-f]{64} matched at the start of s
MatchesSha256(s) ==
    /\ Len(s) >= Sha256HexLen
    /\ \A i \in 1..Sha256HexLen : Char(s, i) \in HexDigits

\* re.match(MIMETYPE_PATTERN, s): ^[-\w]+/[-.\w]+ followed by optional groups;
\* re.match does not anchor the end, so only the mandatory prefix decides.
MatchesMimetype(s) ==
    \E i \in 2..(Len(s) - 1) :
        /\ Char(s, i) = "/"
        /\ \A j \in 1..(i - 1) : Char(s, j) \in WordChars \cup {"-"}
        /\ Char(s, i + 1) \in WordChars \cup {"-", "."}

AUTOINDEX_FILENAME == "__exodus_autoindex__"

Last(seq) == seq[Len(seq)]

\* The ValueError validate_item raises for the input, "" when it returns self.
ValidateItemError(inp) ==
    IF inp.web_uri = "" THEN "No URI"
    ELSE IF inp.link_to # "" /\ inp.object_key # ""
    THEN "Both link target and object key present"
    ELSE IF inp.link_to # "" /\ inp.content_type # ""
    THEN "Content type specified for link"
    ELSE IF inp.link_to = "" /\ inp.object_key = ""
    THEN "No object key or link target"
    ELSE IF /\ inp.link_to = ""
            /\ inp.object_key = "absent"
            /\ inp.content_type # ""
    THEN "Cannot set content type when object_key is 'absent'"
    ELSE IF /\ inp.link_to = ""
            /\ inp.object_key # "absent"
            /\ ~MatchesSha256(inp.object_key)
    THEN "Invalid object key; must be sha256sum"
    ELSE IF inp.content_type # "" /\ ~MatchesMimetype(inp.content_type)
    THEN "Invalid content type"
    ELSE IF /\ AUTOINDEX_FILENAME # ""
            /\ Last(SplitSlash(inp.web_uri)) = AUTOINDEX_FILENAME
    THEN "Invalid URI: filename is reserved"
    ELSE ""

\* The fields of the model after validate_item returned self.
validate_item(inp) ==
    [web_uri      |-> normalize_path(inp.web_uri),
     object_key   |-> inp.object_key,
     content_type |-> inp.content_type,
     link_to      |-> IF inp.link_to # "" THEN normalize_path(inp.link_to)
                      ELSE inp.link_to]

-----------------------------------------------------------------------------
(* models/publish.py: the items table and Publish.resolve_links *)

MaxItems == 3

Publishes == {"p1", "p2"}

K1 == "a3a3a3a3a3a3a3a3a3a3a3a3a3a3a3a3a3a3a3a3a3a3a3a3a3a3a3a3a3a3a3a3"
K2 == "0b0b0b0b0b0b0b0b0b0b0b0b0b0b0b0b0b0b0b0b0b0b0b0b0b0b0b0b0b0b0b0b"

\* Request bodies offered to the publish while it is being built.
LinkInputs ==
    [web_uri      : {"/a", "b"},
     object_key   : {"", K1, K2},
     content_type : {""},
     link_to      : {"", "/a", "/b/."}]

\* Mutant of Falsy: no value counts as missing.
NeverFalsy(v) == FALSE

\* Python truthiness of an optional string: `not v`
Falsy(v) == v \in {None, ""}

\* A validated ItemBase stored as a row of publish p; an unset ("") field is NULL.
ItemRow(p, inp) ==
    LET v == validate_item(inp)
    IN  [publish_id   |-> p,
         web_uri      |-> v.web_uri,
         object_key   |-> IF v.object_key = "" THEN None ELSE v.object_key,
         content_type |-> IF v.content_type = "" THEN None ELSE v.content_type,
         link_to      |-> IF v.link_to = "" THEN None ELSE v.link_to]

\* The orders in which a query without ORDER BY may return the rows S.
RECURSIVE Perms(_)
Perms(S) ==
    IF S = {} THEN {<<>>}
    ELSE UNION {{Append(f, x) : f \in Perms(S \ {x})} : x \in S}

\* db.query(Item).filter(Item.link_to != None): no publish_id criterion
LinkRowIds(its) == {i \in 1..Len(its) : its[i].link_to # None}

\* db.query(match).filter(Item.web_uri.in_(ln_item_paths))
MatchRowIds(its) ==
    {j \in 1..Len(its) :
        \E i \in LinkRowIds(its) : its[j].web_uri = its[i].link_to}

\* The dict comprehension: a later row replaces an earlier one with the same web_uri.
MatchDict(its, rows) ==
    [u \in {its[rows[k]].web_uri : k \in DOMAIN rows} |->
        LET last == CHOOSE k \in DOMAIN rows :
                        /\ its[rows[k]].web_uri = u
                        /\ \A m \in DOMAIN rows :
                               its[rows[m]].web_uri = u => m <= k
        IN  its[rows[last]].object_key]

\* dict.get(key)
DictGet(d, key) == IF key \in DOMAIN d THEN d[key] ELSE None

\* for ln_item in ln_items: assign, then raise HTTPException when nothing matched
RECURSIVE ResolveLoop(_, _, _, _)
ResolveLoop(its, ln_items, matches, k) ==
    IF k > Len(ln_items)
    THEN [items |-> its, raised |-> FALSE, at |-> 0]
    ELSE LET id  == ln_items[k]
             new == [its EXCEPT ![id].object_key = DictGet(matches, its[id].link_to)]
         IN  IF Falsy(new[id].object_key)
             THEN [items |-> new, raised |-> TRUE, at |-> id]
             ELSE ResolveLoop(new, ln_items, matches, k + 1)

\* Publish.resolve_links, for one order of ln_items and one resulting `matches`
resolve_links(its, order) ==
    ResolveLoop(its, order.ln_items, order.matches, 1)

\* Neither query has an ORDER BY: every order of ln_items and of the matching rows.
ResolveOrders(its) ==
    [ln_items : Perms(LinkRowIds(its)),
     matches  : {MatchDict(its, rows) : rows \in Perms(MatchRowIds(its))}]

NoCall ==
    [op |-> "none", publish |-> "", raised |-> FALSE, at |-> 0,
     uri |-> "", link |-> "", pre |-> <<>>]

LinkIdle == items = <<>> /\ call = NoCall

NumRequests == 4

Requests == 1..NumRequests

Profiles == {"prod"}

\* queue_for_profile(profile, maxsize=3)
PoolSize == 3

\* The k-th client constructed for queue q is <<q, k>>; a queue is named after the
\* request whose queue_for_profile call created it.
NoClient == <<0, 0>>

PoolIdle ==
    /\ s3_queues = [p \in Profiles |-> 0]
    /\ queues = [q \in Requests |-> <<>>]
    /\ pc = [r \in Requests |-> "idle"]
    /\ prof = [r \in Requests |-> ""]
    /\ localq = [r \in Requests |-> 0]
    /\ client = [r \in Requests |-> NoClient]
    /\ got = [r \in Requests |-> NoClient]
    /\ waited = {}

\* Request bodies offered to a publish that holds yum repositories.
IndexInputs ==
    [web_uri      : {"/r/repodata/repomd.xml", "/r/sub/repodata/repomd.xml"},
     object_key   : {K1},
     content_type : {""},
     link_to      : {""}]

\* Request bodies offered to a publish whose repository metadata may be a link.
CommitInputs ==
    [web_uri      : {"/r/repodata/repomd.xml", "/a"},
     object_key   : {"", K1},
     content_type : {""},
     link_to      : {"", "/a"}]

\* The repository roots of IndexInputs, and for each the relative directories
\* whose index pages repo_autoindex.autoindex yields, in the order it yields them:
\* nothing when it recognises no repository, else the page of the root itself
\* (relative_dir "") followed by the pages of its subdirectories.
Roots == {"/r", "/r/sub"}

PageOrders == {<<>>, <<"">>, <<"", "sub">>}

\* The key recorded for a PublishContentFetcher call that sent no get_object.
NoRequestKey == "<no request>"

NoFetch == [uri |-> "", row |-> 0, key |-> NoRequestKey, out |-> ""]

NoRun ==
    [pc |-> "idle", publish |-> "", uris |-> <<>>, root |-> 1, page |-> 0,
     added |-> 0, afterOk |-> FALSE, n |-> 0,
     base |-> 0, committed |-> 0, fetch |-> NoFetch, cause |-> "", skipped |-> 0]

IndexIdle ==
    /\ bucket = {}
    /\ repoTree = [root \in Roots |-> <<>>]
    /\ run = NoRun
    /\ hist = [p \in Publishes |-> "none"]

\* schemas.PublishStates and PublishStates.terminal()
PublishStates == {"PENDING", "COMMITTING", "COMMITTED", "FAILED"}

\* Mutant of Terminal: FAILED is not terminal.
TerminalOnlyCommitted == {"COMMITTED"}

Terminal == {"COMMITTED", "FAILED"}

\* A publish is created in state PENDING; no commit job exists for it.
NewPublishState == [state |-> "PENDING", job |-> "none"]

EmptyInput == [web_uri |-> "", object_key |-> "", content_type |-> "", link_to |-> ""]

NoRequest == [called |-> FALSE, inp |-> EmptyInput, error |-> "", item |-> EmptyInput]

NoLogging == [handlers |-> <<>>, start |-> <<>>, worker |-> 0, web |-> 0]

\* A ContextVar without a value.
Unset == "<unset>"

NoFinished == [kind |-> "none", pre |-> <<>>, post |-> <<>>]

\* A worker thread in which no actor runs: neither ContextVar has a value.
NoActor ==
    [prefix |-> Unset, message |-> Unset, stack |-> <<>>, log |-> <<>>,
     calls |-> 0, returned |-> 0, finished |-> NoFinished]

AuxIdle ==
    /\ state = [p \in Publishes |-> NewPublishState]
    /\ req = NoRequest
    /\ root_logger = NoLogging
    /\ actor = NoActor

\* The request bodies validate_item accepts, and the rows they are stored as.
Accepted(inputs) == {inp \in inputs : ValidateItemError(inp) = ""}

AcceptedInputs == Accepted(LinkInputs \cup IndexInputs \cup CommitInputs)

Rows == [p \in Publishes, inp \in AcceptedInputs |-> ItemRow(p, inp)]

\* An item accepted by validate_item is added to publish p (no run in progress).
AddItem(p, inp) ==
    /\ Len(items) < MaxItems
    /\ run.pc = "idle"
    /\ inp \in AcceptedInputs
    /\ items' = Append(items, Rows[p, inp])
    /\ hist' = [hist EXCEPT ![p] = "none"]
    /\ UNCHANGED <<call, poolVars, bucket, repoTree, run, auxVars>>

\* The record kept of a resolve_links call on publish p with result r.
CallOf(p, r) ==
    [op      |-> "resolve_links",
     publish |-> p,
     raised  |-> r.raised,
     at      |-> r.at,
     uri     |-> IF r.raised THEN items[r.at].web_uri ELSE "",
     link    |-> IF r.raised THEN items[r.at].link_to ELSE "",
     pre     |-> items]

\* publish.resolve_links() on the session holding `items`
ResolveLinks(p, order) ==
        LET r == resolve_links(items, order)
        IN  /\ items' = r.items
            /\ call' = CallOf(p, r)
            /\ UNCHANGED <<poolVars, indexVars, auxVars>>

Init == LinkIdle /\ PoolIdle /\ IndexIdle /\ AuxIdle

Next ==
    \/ \E p \in Publishes : \E inp \in LinkInputs : AddItem(p, inp)
    \/ \E order \in ResolveOrders(items) : \E p \in Publishes : ResolveLinks(p, order)

Spec == Init /\ [][Next]_vars

-----------------------------------------------------------------------------
(* deps.py: s3_queues, queue_for_profile, get_s3_client *)

\* Mutant of QueueGet: the client is handed out but stays on the queue.
QueueGetKeepsItem(q) == [client |-> q[Len(q)], rest |-> q]

\* asyncio.LifoQueue.get on a non-empty queue: the item put last
QueueGet(q) == [client |-> q[Len(q)], rest |-> SubSeq(q, 1, Len(q) - 1)]

\* asyncio.LifoQueue.put / put_nowait on a queue that is not full
QueuePut(q, c) == Append(q, c)

\* queue.full()
QueueFull(q) == Len(q) >= PoolSize

\* Mutant of Register: the queue is stored in s3_queues before it has been filled.
RegisterBeforeFilled(registry, p, q, built) == [registry EXCEPT ![p] = q]

\* s3_queues[env.aws_profile] = await queue_for_profile(...): the assignment runs
\* only once queue_for_profile has returned, that is once the queue is full.
Register(registry, p, q, built) ==
    IF QueueFull(built) THEN [registry EXCEPT ![p] = q] ELSE registry

Holding(r) == pc[r] \in {"using", "putting"}

\* The client a get on queue q of qs would return now: the one put last, NoClient
\* when there is no such queue or it is empty.
Top(qs, q) == IF q = 0 \/ qs[q] = <<>> THEN NoClient ELSE qs[q][Len(qs[q])]

\* queue = s3_queues[env.aws_profile]; client = await queue.get()
\* with `qs` the queues and `q` the queue found in s3_queues, which is the
\* profile's registered queue at this moment
TakeFrom(r, q, qs) ==
    /\ localq' = [localq EXCEPT ![r] = q]
    /\ IF qs[q] # <<>>
       THEN /\ client' = [client EXCEPT ![r] = QueueGet(qs[q]).client]
            /\ queues' = [qs EXCEPT ![q] = QueueGet(qs[q]).rest]
            /\ pc' = [pc EXCEPT ![r] = "using"]
            /\ got' = [got EXCEPT ![r] = Top(qs, q)]
            /\ waited' = waited
       ELSE /\ client' = client
            /\ queues' = qs
            /\ pc' = [pc EXCEPT ![r] = "getting"]
            /\ got' = got
            /\ waited' = waited \cup {r}

\* get_s3_client is entered for a request on profile p and runs to its first await
\* that suspends. Requests are numbered in the order in which they enter.
Enter(r, p) ==
    /\ pc[r] = "idle"
    /\ \A earlier \in 1..(r - 1) : pc[earlier] # "idle"
    /\ prof' = [prof EXCEPT ![r] = p]
    /\ IF s3_queues[p] = 0
       THEN /\ pc' = [pc EXCEPT ![r] = "building"]
            /\ queues' = [queues EXCEPT ![r] = <<>>]
            /\ UNCHANGED <<s3_queues, localq, client, got, waited>>
       ELSE /\ TakeFrom(r, s3_queues[p], queues)
            /\ UNCHANGED s3_queues
    /\ UNCHANGED <<linkVars, indexVars, auxVars>>

\* One `await S3ClientWrapper(profile).__aenter__()` of queue_for_profile completes;
\* when that fills the queue, the caller registers it and takes a client at once.
BuildClient(r) ==
    /\ pc[r] = "building"
    /\ LET built == QueuePut(queues[r], <<r, Len(queues[r]) + 1>>)
           qs    == [queues EXCEPT ![r] = built]
       IN  /\ s3_queues' = Register(s3_queues, prof[r], r, built)
           /\ IF QueueFull(built)
              THEN TakeFrom(r, r, qs)
              ELSE /\ queues' = qs
                   /\ UNCHANGED <<pc, localq, client, got, waited>>
    /\ UNCHANGED <<prof, linkVars, indexVars, auxVars>>

\* Constructing a client raises inside queue_for_profile: the exception leaves
\* get_s3_client before the assignment to s3_queues; the local queue is dropped.
BuildFail(r) ==
    /\ pc[r] = "building"
    /\ pc' = [pc EXCEPT ![r] = "failed"]
    /\ queues' = [queues EXCEPT ![r] = <<>>]
    /\ UNCHANGED <<s3_queues, prof, localq, client, got, waited, linkVars, indexVars, auxVars>>

\* A request blocked in `await queue.get()` is woken with a client.
Get(r) ==
    /\ pc[r] = "getting"
    /\ queues[localq[r]] # <<>>
    /\ client' = [client EXCEPT ![r] = QueueGet(queues[localq[r]]).client]
    /\ queues' = [queues EXCEPT ![localq[r]] = QueueGet(queues[localq[r]]).rest]
    /\ pc' = [pc EXCEPT ![r] = "using"]
    /\ got' = [got EXCEPT ![r] = Top(queues, s3_queues[prof[r]])]
    /\ UNCHANGED <<s3_queues, prof, localq, waited, linkVars, indexVars, auxVars>>

\* The caller's unit of work ends, normally (ok) or by raising: the finally clause
\* runs `await queue.put(client)`, which waits while the queue is full.
Release(r, ok) ==
    /\ Holding(r)
    /\ IF QueueFull(queues[localq[r]])
       THEN /\ pc' = [pc EXCEPT ![r] = "putting"]
            /\ queues' = queues
       ELSE /\ pc' = [pc EXCEPT ![r] = IF ok THEN "done" ELSE "raised"]
            /\ queues' = [queues EXCEPT ![localq[r]] = QueuePut(@, client[r])]
    /\ UNCHANGED <<s3_queues, prof, localq, client, got, waited, linkVars, indexVars, auxVars>>

PoolInit == LinkIdle /\ PoolIdle /\ IndexIdle /\ AuxIdle

PoolNext ==
    \/ \E r \in Requests : \E p \in Profiles : Enter(r, p)
    \/ \E r \in Requests : BuildClient(r)
    \/ \E r \in Requests : BuildFail(r)
    \/ \E r \in Requests : Get(r)
    \/ \E r \in Requests : \E ok \in BOOLEAN : Release(r, ok)

PoolSpec == PoolInit /\ [][PoolNext]_vars

-----------------------------------------------------------------------------
(* worker/autoindex.py: AutoindexEnricher *)

MaxRuns == 2

INDEX_FILENAME == "__exodus_autoindex__"

RepomdSuffix == "/repodata/repomd.xml"

\* The content of the page the generator yields for a directory of a repository.
PageContent(base_uri, relative_dir) ==
    "<html>" \o base_uri \o "/" \o relative_dir \o "</html>"

\* hashlib.sha256(content).hexdigest(), tabulated for the contents of the model.
Sha256Hex(content) ==
    CASE content = "" ->
             "e3b0c44298fc1c149afbf4c8996fb92427ae41e4649b934ca495991b7852b855"
      [] content = "<html>/r/</html>" ->
             "7710a934442efac34ff9525e73324146733ab901f320a52247561955820cf1a2"
      [] content = "<html>/r/sub</html>" ->
             "88d0b35dc90cc35a69fe0e484dc525fbfcbee656e8a77ce442e01494e2dcd05e"
      [] content = "<html>/r/sub/</html>" ->
             "3c6ffff8631430efe033b0cdd99248f6e07149698203d84e8357a244d2a421a4"
      [] content = "<html>/r/sub/sub</html>" ->
             "ac8bc0cc5cfd0dd30a949c2327efe26b971322a612c859375efd3155f829d2eb"

\* str.lower() of a hex digest: hexdigest() has no upper-case letter to change.
Lower(hex) == hex

\* Mutant of object_key: the key is the digest of the empty content.
ObjectKeyOfNothing(content) == Lower(Sha256Hex(""))

\* object_key(content): the SHA-256 of the bytes as lowercase hex
object_key(content) == Lower(Sha256Hex(content))

\* self.item_query: db.query(Item).filter(Item.publish_id == publish.id)
ItemQuery(its, p) == {i \in 1..Len(its) : its[i].publish_id = p}

\* repomd_xml_items: item_query.filter(Item.web_uri.like("%/repodata/repomd.xml"))
RepomdRowIds(its, p) ==
    {i \in ItemQuery(its, p) : EndsWith(its[i].web_uri, RepomdSuffix)}

\* Mutant of IndexExists: the check for an existing index is lost.
IndexNeverExists(its, p, index_uri) == FALSE

\* self.item_query.filter(Item.web_uri == index_uri).count() is non-zero
IndexExists(its, p, index_uri) ==
    \E i \in ItemQuery(its, p) : its[i].web_uri = index_uri

\* uris_for_autoindex, the repomd.xml items being returned in the order `rows`
RECURSIVE UrisLoop(_, _, _, _)
UrisLoop(its, p, rows, k) ==
    IF k > Len(rows) THEN <<>>
    ELSE LET web_uri       == its[rows[k]].web_uri
             base_repo_uri == SubSeq(web_uri, 1, Len(web_uri) - Len(RepomdSuffix))
             index_uri     == base_repo_uri \o "/" \o INDEX_FILENAME
         IN  (IF IndexExists(its, p, index_uri) THEN <<>> ELSE <<base_repo_uri>>)
                 \o UrisLoop(its, p, rows, k + 1)

uris_for_autoindex(its, p, rows) == UrisLoop(its, p, rows, 1)

\* Mutant of IndexWebUri: the relative directory is left out of the web_uri.
IndexWebUriOfRoot(base_uri, relative_dir) == base_uri \o "/" \o INDEX_FILENAME

\* The web_uri autoindex_items gives the page of relative_dir under base_uri
IndexWebUri(base_uri, relative_dir) ==
    JoinSlash(<<base_uri>>
              \o (IF relative_dir # "" THEN <<relative_dir>> ELSE <<>>)
              \o <<INDEX_FILENAME>>)

\* The Item autoindex_items yields for a generated page
IndexItem(p, base_uri, relative_dir) ==
    [publish_id   |-> p,
     web_uri      |-> IndexWebUri(base_uri, relative_dir),
     object_key   |-> object_key(PageContent(base_uri, relative_dir)),
     content_type |-> "text/html; charset=UTF-8",
     link_to      |-> None]

Running == run.pc = "running"

InRoot == Running /\ run.root <= Len(run.uris)

\* run() is called for publish p: uris_for_autoindex is evaluated and the S3
\* client is opened.
RunStart(p, rows) ==
    /\ run.pc = "idle"
    /\ run.n < MaxRuns
    /\ run' = [pc        |-> "running",
               publish   |-> p,
               uris      |-> uris_for_autoindex(items, p, rows),
               root      |-> 1,
               page      |-> 0,
               added     |-> 0,
               afterOk   |-> hist[p] = "ok",
               n         |-> run.n + 1,
               base      |-> Len(items),
               committed |-> 0,
               fetch     |-> NoFetch,
               cause     |-> "",
               skipped   |-> 0]
    /\ UNCHANGED <<items, call, poolVars, bucket, repoTree, hist, auxVars>>

\* The URIs the index generator asks the fetcher for while it works on base_uri:
\* the repository metadata, and a file that marks another kind of repository.
FetchUris(base_uri) ==
    {base_uri \o RepomdSuffix, base_uri \o "/PULP_MANIFEST"}

FetchTargets == UNION {FetchUris(root) : root \in Roots}

\* Mutant of Matched: the web_uri criterion of the query is lost.
MatchedAnyUri(its, p, uri) == ItemQuery(its, p)

\* db.query(Item).filter(Item.publish_id == self.publish.id, Item.web_uri == uri)
Matched(its, p, uri) == {i \in ItemQuery(its, p) : its[i].web_uri = uri}

BucketKeys(objects) == {o.key : o \in objects}

\* The exception leaves run(): nothing in autoindex.py catches it, the roots after
\* the current one are not visited.
Raised(r, cause) ==
    [r EXCEPT !.pc = "idle", !.uris = <<>>, !.root = 1, !.page = 0,
              !.cause = cause, !.skipped = Len(r.uris) - r.root]

\* PublishContentFetcher.__call__(uri), called by the generator of the current
\* root, `i` being the row the query returns first when it returns any: without a
\* row it returns None; else it sends get_object for the row's object_key, which
\* raises when the bucket has no such key and may raise for any other reason (ok
\* is FALSE then).
RunFetch(uri, i, ok) ==
    /\ InRoot
    /\ uri \in FetchUris(run.uris[run.root])
    /\ LET matched == Matched(items, run.publish, uri)
       IN  IF matched = {}
           THEN /\ run' = [run EXCEPT !.fetch = [uri |-> uri, row |-> 0,
                                                 key |-> NoRequestKey,
                                                 out |-> "None"]]
                /\ hist' = hist
           ELSE /\ i \in matched
                /\ LET key == items[i].object_key
                   IN  IF ok /\ key \in BucketKeys(bucket)
                       THEN /\ run' = [run EXCEPT !.fetch =
                                           [uri |-> uri, row |-> i, key |-> key,
                                            out |-> "content"]]
                            /\ hist' = hist
                       ELSE /\ run' = [Raised(run, "get_object") EXCEPT !.fetch =
                                           [uri |-> uri, row |-> i, key |-> key,
                                            out |-> "raised"]]
                            /\ hist' = [hist EXCEPT ![run.publish] = "raised"]
    /\ UNCHANGED <<items, call, poolVars, bucket, repoTree, auxVars>>

\* Mutant of DbCommit: the session is not committed after the item is added.
DbCommitDeferred(committed, added) == committed

\* self.db.commit(): every item added to the session so far is committed
DbCommit(committed, added) == added

\* Mutant of PutObject: the upload is acknowledged but nothing is stored.
PutObjectLost(objects, key, body) == objects

\* s3_client.put_object(Body=body, Bucket=..., Key=key) that does not raise
PutObject(objects, key, body) == objects \cup {[key |-> key, body |-> body]}

\* The generator yields the next page of the current root: autoindex_items uploads
\* it under its key and yields the item, which run() adds and commits.
RunPage ==
    /\ InRoot
    /\ run.page < Len(repoTree[run.uris[run.root]])
    /\ LET base_uri     == run.uris[run.root]
           relative_dir == repoTree[base_uri][run.page + 1]
           item         == IndexItem(run.publish, base_uri, relative_dir)
       IN  /\ bucket' = PutObject(bucket, item.object_key,
                                   PageContent(base_uri, relative_dir))
           /\ items' = Append(items, item)
    /\ run' = [run EXCEPT !.page = @ + 1, !.added = @ + 1,
                          !.committed = DbCommit(@, run.added + 1)]
    /\ UNCHANGED <<call, poolVars, repoTree, hist, auxVars>>

\* The generator of the current root is exhausted: the loop takes the next base_uri.
RunNextRoot ==
    /\ InRoot
    /\ run.page = Len(repoTree[run.uris[run.root]])
    /\ run' = [run EXCEPT !.root = @ + 1, !.page = 0]
    /\ UNCHANGED <<items, call, poolVars, bucket, repoTree, hist, auxVars>>

\* put_object raises for the page the generator has just yielded: nothing in
\* run() catches it, the exception leaves run().
RunRaise ==
    /\ InRoot
    /\ run.page < Len(repoTree[run.uris[run.root]])
    /\ run' = Raised(run, "put_object")
    /\ hist' = [hist EXCEPT ![run.publish] = "raised"]
    /\ UNCHANGED <<items, call, poolVars, bucket, repoTree, auxVars>>

\* Every base_uri has been processed: run() returns.
RunReturn ==
    /\ Running
    /\ run.root > Len(run.uris)
    /\ run' = [run EXCEPT !.pc = "idle", !.uris = <<>>, !.root = 1, !.page = 0]
    /\ hist' = [hist EXCEPT ![run.publish] = "ok"]
    /\ UNCHANGED <<items, call, poolVars, bucket, repoTree, auxVars>>

\* The publish being built receives items; the other publish of the session
\* already holds a repository at /r.
BuiltPublish == "p1"

\* The blob uploaded under K1 before the publish was built.
RepomdObject == [key |-> K1, body |-> "<repomd/>"]

OtherPublishItems ==
    <<Rows["p2", [web_uri |-> "/r/repodata/repomd.xml", object_key |-> K1,
                  content_type |-> "", link_to |-> ""]]>>

IndexInit ==
    /\ items = OtherPublishItems
    /\ call = NoCall
    /\ PoolIdle
    /\ bucket \in {{}, {RepomdObject}}
    /\ repoTree \in [Roots -> PageOrders]
    /\ run = NoRun
    /\ hist = [p \in Publishes |-> "none"]
    /\ AuxIdle

IndexNext ==
    \/ \E inp \in IndexInputs : AddItem(BuiltPublish, inp)
    \/ \E p \in Publishes : \E rows \in Perms(RepomdRowIds(items, p)) :
           RunStart(p, rows)
    \/ \E uri \in FetchTargets :
           \E i \in 1..Len(items) : \E ok \in BOOLEAN : RunFetch(uri, i, ok)
    \/ RunPage
    \/ RunNextRoot
    \/ RunRaise
    \/ RunReturn

IndexSpec == IndexInit /\ [][IndexNext]_vars

-----------------------------------------------------------------------------
(* The commit job of a publish: link resolution, then autoindex, then the     *)
(* terminal state                                                             *)

\* An item is added to a publish that has not been committed yet.
CommitAddItem(p, inp) ==
    /\ state[p].state = "PENDING"
    /\ AddItem(p, inp)

\* The commit request: PENDING -> COMMITTING, the commit job is enqueued.
CommitRequest(p) ==
    /\ state[p].state = "PENDING"
    /\ state' = [state EXCEPT ![p] = [state |-> "COMMITTING", job |-> "resolving"]]
    /\ UNCHANGED <<linkVars, poolVars, indexVars, req, root_logger, actor>>

\* The terminal state a stage's result leads to.
Outcome(raised) == IF raised THEN "FAILED" ELSE "COMMITTED"

\* The job runs publish.resolve_links(): when it raises the publish becomes FAILED
\* and the rewrites made so far are not persisted; else the job goes on to
\* autoindex.
CommitResolve(p, order) ==
    /\ state[p].job = "resolving"
    /\ LET r == resolve_links(items, order)
       IN  /\ call' = CallOf(p, r)
           /\ IF r.raised
              THEN /\ items' = items
                   /\ state' = [state EXCEPT ![p] = [state |-> Outcome(TRUE),
                                                     job   |-> "done"]]
              ELSE /\ items' = r.items
                   /\ state' = [state EXCEPT ![p].job = "indexing"]
    /\ UNCHANGED <<poolVars, indexVars, req, root_logger, actor>>

\* The job starts AutoindexEnricher(publish).run().
CommitRunStart(p, rows) ==
    /\ state[p].job = "indexing"
    /\ hist[p] = "none"
    /\ RunStart(p, rows)

\* run() has returned or raised: the publish becomes COMMITTED or FAILED.
CommitFinish(p) ==
    /\ state[p].job = "indexing"
    /\ hist[p] \in {"ok", "raised"}
    /\ state' = [state EXCEPT ![p] = [state |-> Outcome(hist[p] = "raised"),
                                      job   |-> "done"]]
    /\ UNCHANGED <<linkVars, poolVars, indexVars, req, root_logger, actor>>

\* The deadline of the job expires: the job is abandoned where it is and the
\* publish stays COMMITTING.
CommitAbandon(p) ==
    /\ state[p].job \in {"resolving", "indexing"}
    /\ state' = [state EXCEPT ![p].job = "abandoned"]
    /\ run' = IF Running /\ run.publish = p
              THEN [run EXCEPT !.pc = "idle", !.uris = <<>>, !.root = 1, !.page = 0]
              ELSE run
    /\ UNCHANGED <<linkVars, poolVars, bucket, repoTree, hist, req, root_logger, actor>>

\* The other publish of the session already holds a repository whose metadata
\* is a link to /a.
OtherPublishLink ==
    <<Rows["p2", [web_uri |-> "/r/repodata/repomd.xml", object_key |-> "",
                  content_type |-> "", link_to |-> "/a"]]>>

CommitInit ==
    /\ items = OtherPublishLink
    /\ call = NoCall
    /\ PoolIdle
    /\ bucket = {RepomdObject}
    /\ repoTree = [root \in Roots |-> <<"">>]
    /\ run = NoRun
    /\ hist = [p \in Publishes |-> "none"]
    /\ AuxIdle

CommitNext ==
    \/ \E inp \in CommitInputs : CommitAddItem(BuiltPublish, inp)
    \/ \E p \in Publishes : CommitRequest(p)
    \/ \E order \in ResolveOrders(items) : \E p \in Publishes : CommitResolve(p, order)
    \/ \E p \in Publishes : \E rows \in Perms(RepomdRowIds(items, p)) :
           CommitRunStart(p, rows)
    \/ \E uri \in FetchTargets :
           \E i \in 1..Len(items) : \E ok \in BOOLEAN : RunFetch(uri, i, ok)
    \/ RunPage
    \/ RunNextRoot
    \/ RunRaise
    \/ RunReturn
    \/ \E p \in Publishes : CommitFinish(p)
    \/ \E p \in Publishes : CommitAbandon(p)

CommitSpec == CommitInit /\ [][CommitNext]_vars

-----------------------------------------------------------------------------
(* ItemBase.validate_item applied to request bodies *)

\* Request bodies: URIs with and without the reserved filename, written in
\* several ways; keys that are unset, "absent", a digest, a digest followed by
\* another character, a digest in upper case, and a short string.
ValidateInputs ==
    [web_uri      : {"", "/a", "/a/__exodus_autoindex__", "__exodus_autoindex__",
                     "/a/__exodus_autoindex__/", "/a/__exodus_autoindex__/..",
                     "/a/b/../__exodus_autoindex__"},
     object_key   : {"", "absent", K1, K1 \o "g",
                     "A3A3A3A3A3A3A3A3A3A3A3A3A3A3A3A3A3A3A3A3A3A3A3A3A3A3A3A3A3A3A3A3",
                     "a3a3"},
     content_type : {"", "text/html", "html"},
     link_to      : {"", "/a"}]

\* The model is constructed from the request body: validate_item runs and either
\* raises ValueError or returns the model with its normalized fields.
Validate ==
    /\ ~req.called
    /\ req' = [called |-> TRUE,
               inp    |-> req.inp,
               error  |-> ValidateItemError(req.inp),
               item   |-> IF ValidateItemError(req.inp) = ""
                          THEN validate_item(req.inp) ELSE EmptyInput]
    /\ UNCHANGED <<linkVars, poolVars, indexVars, state, root_logger, actor>>

ValidateInit ==
    /\ LinkIdle
    /\ PoolIdle
    /\ IndexIdle
    /\ state = [p \in Publishes |-> NewPublishState]
    /\ req \in {[NoRequest EXCEPT !.inp = inp] : inp \in ValidateInputs}
    /\ root_logger = NoLogging
    /\ actor = NoActor

ValidateNext == Validate

ValidateSpec == ValidateInit /\ [][ValidateNext]_vars

-----------------------------------------------------------------------------
(* logging.py: loggers_init *)

MaxCalls == 4

Components == {"web", "worker"}

\* A handler of the root logger: its class, the component whose JsonFormatter it
\* has been given ("" before any), and the number of filters added to it.
Handler(kind) == [kind |-> kind, fmt |-> "", filters |-> 0]

\* The handlers the root logger may have before loggers_init is first called (the
\* logging configuration of the process may have installed stream handlers and
\* handlers of other classes): the sequences of at most two of them.
StartKinds ==
    {<<>>} \cup {<<k>> : k \in {"StreamHandler", "NullHandler"}}
           \cup {<<k1, k2>> : k1 \in {"StreamHandler", "NullHandler"},
                              k2 \in {"StreamHandler", "NullHandler"}}

Kinds(handlers) == [i \in DOMAIN handlers |-> handlers[i].kind]

\* root_logger.hasHandlers(): the root logger has no parent to look at
HasHandlers(handlers) == Len(handlers) > 0

\* Mutant of HasGWHandler: a GWHandler already present is not seen.
GWHandlerNotSeen(handlers) == FALSE

\* [h for h in root_logger.handlers if isinstance(h, GWHandler)] is non-empty
HasGWHandler(handlers) == \E i \in DOMAIN handlers : handlers[i].kind = "GWHandler"

\* handler.setFormatter(JsonFormatter(...)) and, for web, handler.addFilter(...)
Configure(h, component) ==
    [h EXCEPT !.fmt = component,
              !.filters = IF component = "web" THEN @ + 1 ELSE @]

\* loggers_init(settings, component); dictConfig(settings.log_config) leaves the
\* handlers of the root logger as they are.
LoggersInit(component) ==
    /\ root_logger.worker + root_logger.web < MaxCalls
    /\ LET h0 == root_logger.handlers
           h1 == IF ~HasHandlers(h0) THEN Append(h0, Handler("StreamHandler"))
                 ELSE h0
           h2 == IF component = "worker" /\ ~HasGWHandler(h1)
                 THEN Append(h1, Handler("GWHandler")) ELSE h1
       IN  root_logger' =
               [root_logger EXCEPT
                    !.handlers = [i \in DOMAIN h2 |-> Configure(h2[i], component)],
                    !.worker = IF component = "worker" THEN @ + 1 ELSE @,
                    !.web = IF component = "web" THEN @ + 1 ELSE @]
    /\ UNCHANGED <<linkVars, poolVars, indexVars, state, req, actor>>

LogInit ==
    /\ LinkIdle
    /\ PoolIdle
    /\ IndexIdle
    /\ state = [p \in Publishes |-> NewPublishState]
    /\ req = NoRequest
    /\ root_logger \in
           {[NoLogging EXCEPT !.start = kinds,
                              !.handlers = [i \in DOMAIN kinds |-> Handler(kinds[i])]] :
                kinds \in StartKinds}
    /\ actor = NoActor

LogNext == \E component \in Components : LoggersInit(component)

LogSpec == LogInit /\ [][LogNext]_vars

-----------------------------------------------------------------------------
(* Properties of Publish.resolve_links, checked under Spec *)

Resolved == call.op = "resolve_links"

RowIds(its) == 1..Len(its)

\* C1: after resolve_links on a publish returns without raising, every item of
\* that publish that had link_to set carries the object_key of an item of the
\* same publish whose web_uri equals that link_to.
C1_LinkGetsKeyOfTargetInSamePublish ==
    (Resolved /\ ~call.raised) =>
        \A i \in RowIds(call.pre) :
            (call.pre[i].publish_id = call.publish /\ call.pre[i].link_to # None) =>
                \E j \in RowIds(call.pre) :
                    /\ call.pre[j].publish_id = call.publish
                    /\ call.pre[j].web_uri = call.pre[i].link_to
                    /\ items[i].object_key = items[j].object_key

\* C2: when some link item's link_to matches no item's web_uri, resolve_links
\* raises, and when it raises no item other than the one named in the error has
\* an object_key different from its value before the call.
C2_FailureLeavesOtherItemsUnchanged ==
    Resolved =>
        /\ (\E i \in RowIds(call.pre) :
                /\ call.pre[i].link_to # None
                /\ \A j \in RowIds(call.pre) :
                       call.pre[j].web_uri # call.pre[i].link_to)
           => call.raised
        /\ call.raised =>
               \A i \in RowIds(call.pre) :
                   i # call.at => items[i].object_key = call.pre[i].object_key

\* C3: resolve_links on publish P modifies no item of another publish, takes no
\* link target from another publish, and does not fail because of a link item of
\* another publish.
C3_ResolutionStaysInsidePublish ==
    Resolved =>
        /\ \A i \in RowIds(call.pre) :
               call.pre[i].publish_id # call.publish => items[i] = call.pre[i]
        /\ call.raised => call.pre[call.at].publish_id = call.publish
        /\ ~call.raised =>
               \A i \in RowIds(call.pre) :
                   (call.pre[i].publish_id = call.publish
                        /\ call.pre[i].link_to # None) =>
                       \E j \in RowIds(call.pre) :
                           /\ call.pre[j].publish_id = call.publish
                           /\ call.pre[j].web_uri = call.pre[i].link_to
                           /\ call.pre[j].object_key = items[i].object_key

\* C4: every item of every publish has exactly one of link_to and object_key set.
C4_ExactlyOneOfLinkAndKey ==
    \A i \in RowIds(items) :
        (items[i].link_to # None) # (items[i].object_key # None)

-----------------------------------------------------------------------------
(* Properties of the S3 client pool, checked under PoolSpec *)

\* C5: a client held by one request is held by no other request and is on no
\* queue until the holder has put it back.
C5_ClientHeldByOneAcquirer ==
    \A r \in Requests :
        Holding(r) =>
            /\ \A o \in Requests \ {r} : Holding(o) => client[o] # client[r]
            /\ \A q \in Requests :
                   \A k \in DOMAIN queues[q] : queues[q][k] # client[r]

\* Two requests of one profile hold clients taken from the same queue.
C5_TwoHoldersOfOnePool ==
    \E r \in Requests : \E o \in Requests \ {r} :
        /\ Holding(r) /\ Holding(o)
        /\ prof[r] = prof[o]
        /\ localq[r] = localq[o]

\* C6: for each profile, the number of clients in use at the same time never
\* exceeds the pool size.
C6_InUseBoundedByPoolSize ==
    \A p \in Profiles :
        Cardinality({r \in Requests : Holding(r) /\ prof[r] = p}) <= PoolSize

\* C7: once every caller has left get_s3_client, each client that was handed out
\* is back on the queue registered for its profile, and that queue holds all of
\* its clients.
C7_ClientsBackInRegisteredPool ==
    (\A r \in Requests : pc[r] \in {"idle", "done", "raised", "failed"}) =>
        \A r \in Requests :
            pc[r] \in {"done", "raised"} =>
                /\ s3_queues[prof[r]] # 0
                /\ Len(queues[s3_queues[prof[r]]]) = PoolSize
                /\ \E k \in DOMAIN queues[s3_queues[prof[r]]] :
                       queues[s3_queues[prof[r]]][k] = client[r]

\* C8: a queue registered in s3_queues was completely built (all of its clients
\* exist, on the queue or handed out from it); a request whose client
\* construction failed has registered nothing, and a queue still being built is
\* not registered.
C8_OnlyCompletePoolRegistered ==
    /\ \A p \in Profiles :
           s3_queues[p] # 0 =>
               /\ pc[s3_queues[p]] \notin {"idle", "building", "failed"}
               /\ Len(queues[s3_queues[p]])
                      + Cardinality({r \in Requests :
                                        Holding(r) /\ localq[r] = s3_queues[p]})
                  = PoolSize
    /\ \A r \in Requests :
           pc[r] \in {"building", "failed"} =>
               /\ \A p \in Profiles : s3_queues[p] # r
               /\ Len(queues[r]) < PoolSize

\* A construction failure happened, and the pool registered for the profile is
\* one built by another request.
C8_FailedBuildThenPoolBuilt ==
    \E r \in Requests : \E o \in Requests \ {r} :
        /\ pc[r] = "failed"
        /\ s3_queues[prof[r]] = o
        /\ Holding(o)

-----------------------------------------------------------------------------
(* Properties of AutoindexEnricher.run, checked under IndexSpec *)

IsIndexItem(item) == EndsWith(item.web_uri, "/" \o INDEX_FILENAME)

\* C9: no publish ever holds two index items with the same web_uri: a run never
\* adds an index item at a web_uri where the publish already has one.
C9_IndexNeverDuplicated ==
    \A i \in RowIds(items) : \A j \in RowIds(items) :
        (/\ i # j
         /\ items[i].publish_id = items[j].publish_id
         /\ IsIndexItem(items[i]))
        => items[i].web_uri # items[j].web_uri

\* C10: a run that follows a completed run on the same publish, with no item
\* added to the publish in between, adds no item; and the roots a run selects
\* are roots that have no item at {root}/__exodus_autoindex__ when it starts.
C10_SecondRunAddsNothing ==
    /\ run.afterOk => run.added = 0
    /\ (Running /\ run.added = 0) =>
           \A k \in DOMAIN run.uris :
               ~\E i \in ItemQuery(items, run.publish) :
                    items[i].web_uri = run.uris[k] \o "/" \o INDEX_FILENAME

\* A second run has returned on a publish whose first run added an index.
C10_SecondRunAfterIndexing ==
    /\ run.afterOk
    /\ run.pc = "idle"
    /\ hist[run.publish] = "ok"
    /\ \E i \in ItemQuery(items, run.publish) : IsIndexItem(items[i])

\* The rows the current (or last) run has added, and what the publish held when
\* the run started.
AddedIds == (run.base + 1)..(run.base + run.added)

RootsAtStart ==
    {i \in 1..run.base : /\ items[i].publish_id = run.publish
                         /\ EndsWith(items[i].web_uri, RepomdSuffix)}

FreshStart ==
    \A i \in 1..run.base :
        items[i].publish_id = run.publish => ~IsIndexItem(items[i])

AllRootsDone == Running /\ run.root > Len(run.uris)

RECURSIVE PagesOf(_)
PagesOf(uris) ==
    IF uris = <<>> THEN 0 ELSE Len(repoTree[Head(uris)]) + PagesOf(Tail(uris))

IsSha256Hex(key) == Len(key) = Sha256HexLen /\ MatchesSha256(key)

\* C11 as stated: for a publish with N repomd.xml items and no index item, a run
\* that has processed every root has added exactly N items.
C11_RunAddsExactlyN ==
    (AllRootsDone /\ FreshStart) => run.added = Cardinality(RootsAtStart)

\* C11, amended: every item a run adds belongs to the publish of the run, has a
\* web_uri ending in /__exodus_autoindex__ and an object_key that is the lowercase
\* SHA-256 hex digest of a body uploaded under that key; and for a publish with
\* N repomd.xml items and no index item, a run that has processed every root has
\* visited N roots and added one item per page the generator yielded for them.
C11_RunAddsOneItemPerPage ==
    /\ Running =>
           \A i \in AddedIds :
               /\ items[i].publish_id = run.publish
               /\ IsIndexItem(items[i])
               /\ IsSha256Hex(items[i].object_key)
               /\ \E o \in bucket : /\ o.key = items[i].object_key
                                    /\ o.key = Sha256Hex(o.body)
    /\ (AllRootsDone /\ FreshStart) =>
           /\ Len(run.uris) = Cardinality(RootsAtStart)
           /\ run.added = PagesOf(run.uris)

\* A run on a publish with two roots and no index has processed both roots and
\* added three pages.
C11_TwoRootsThreePages ==
    /\ AllRootsDone
    /\ FreshStart
    /\ Cardinality(RootsAtStart) = 2
    /\ run.added = 3

\* C12: when get_object or put_object fails while a root is being processed, the
\* eligible roots that come after it in the run are still attempted: a run that
\* ended with such a failure has left no later root unvisited.
C12_LaterRootsStillAttempted ==
    (run.pc = "idle" /\ run.cause \in {"get_object", "put_object"}) =>
        run.skipped = 0

\* C13: every item a run has added is committed before the run waits for anything
\* else, so when a run has failed on a later document every item it generated
\* before the failure is committed and is still an item of the publish.
C13_ItemsCommittedAsYielded ==
    /\ run.committed = run.added
    /\ (run.pc = "idle" /\ run.cause # "") =>
           /\ Len(items) >= run.base + run.added
           /\ \A i \in AddedIds : /\ items[i].publish_id = run.publish
                                  /\ IsIndexItem(items[i])

\* A run has failed after it had added at least one item.
C13_FailedAfterAnItem ==
    /\ run.pc = "idle"
    /\ run.cause # ""
    /\ run.added >= 1

Fetched == run.fetch.out # ""

NoItemAt(p, uri) == \A i \in ItemQuery(items, p) : items[i].web_uri # uri

\* C16: a fetch of a URI at which the publish has no item returns None: it does
\* not raise and sends no get_object to the storage backend.
C16_FetchOfMissingItemIsAbsent ==
    (Fetched /\ NoItemAt(run.publish, run.fetch.uri)) =>
        /\ run.fetch.out = "None"
        /\ run.fetch.key = NoRequestKey
        /\ run.cause # "get_object"

\* The fetcher has been asked for a URI the publish has no item at, during a run
\* that is still in progress.
C16_FetchedMissingUri ==
    /\ Running
    /\ Fetched
    /\ NoItemAt(run.publish, run.fetch.uri)

\* C17: when get_object fails for one URI during a run, the failure is absorbed:
\* the run does not end with that exception.
C17_FetchFailureAbsorbed ==
    run.fetch.out = "raised" => ~(run.pc = "idle" /\ run.cause = "get_object")

-----------------------------------------------------------------------------
(* Properties of the commit job, checked under CommitSpec *)

Unresolved(item) == item.link_to # None /\ item.object_key = None

\* C14: while the autoindex run of a publish is in progress the publish's link
\* resolution has completed without raising, no item of the publish is an
\* unresolved link, and no fetch of the run has read an item whose link was
\* unresolved.
C14_AutoindexSeesNoUnresolvedLink ==
    /\ Running =>
           /\ state[run.publish].job = "indexing"
           /\ \A i \in ItemQuery(items, run.publish) : ~Unresolved(items[i])
    /\ (Fetched /\ run.fetch.row # 0) =>
           /\ ~Unresolved(items[run.fetch.row])
           /\ items[run.fetch.row].link_to # None => run.fetch.key # None

\* A fetch of a run in progress has read an item that is a (resolved) link.
C14_FetchReadResolvedLink ==
    /\ Running
    /\ Fetched
    /\ run.fetch.row # 0
    /\ items[run.fetch.row].link_to # None

AllowedTransitions ==
    {<<"PENDING", "COMMITTING">>, <<"COMMITTING", "COMMITTED">>,
     <<"COMMITTING", "FAILED">>}

-----------------------------------------------------------------------------
(* Properties of ItemBase.validate_item, checked under ValidateSpec *)

IsAccepted == req.called /\ req.error = ""

IsRejected == req.called /\ req.error # ""

\* C18: the web_uri of an accepted item, as stored after normalization, does not
\* have the reserved autoindex filename as its last path component; an input
\* whose normalized web_uri ends in that filename is rejected.
C18_ReservedFilenameNeverStored ==
    /\ IsAccepted => Last(SplitSlash(req.item.web_uri)) # AUTOINDEX_FILENAME
    /\ (/\ req.called
        /\ req.inp.web_uri # ""
        /\ Last(SplitSlash(normalize_path(req.inp.web_uri))) = AUTOINDEX_FILENAME)
       => IsRejected

\* C19: an input with a content_type together with link_to, or with object_key
\* "absent", is rejected; an accepted content_type comes with an object_key that
\* is a SHA-256 digest, and an accepted object_key is unset (for a link),
\* "absent", or exactly 64 lowercase hex digits.
C19_ContentTypeOnlyWithDigest ==
    /\ (/\ req.called
        /\ req.inp.content_type # ""
        /\ (req.inp.link_to # "" \/ req.inp.object_key = "absent"))
       => IsRejected
    /\ IsAccepted =>
           /\ req.item.content_type # "" => IsSha256Hex(req.item.object_key)
           /\ \/ (req.item.object_key = "" /\ req.item.link_to # "")
              \/ req.item.object_key = "absent"
              \/ IsSha256Hex(req.item.object_key)

-----------------------------------------------------------------------------
(* Properties of loggers_init, checked under LogSpec *)

CountKind(handlers, kind) ==
    Cardinality({i \in DOMAIN handlers : handlers[i].kind = kind})

WorkerInitDone == root_logger.worker >= 1

\* C20 as stated: after loggers_init(settings, "worker") has been called, whatever
\* handlers the root logger started with, it has at least one StreamHandler and
\* exactly one GWHandler.
C20_StreamHandlerAndOneGWHandler ==
    WorkerInitDone =>
        /\ CountKind(root_logger.handlers, "StreamHandler") >= 1
        /\ CountKind(root_logger.handlers, "GWHandler") = 1

\* C20, amended: after one or more loggers_init(settings, "worker") calls the
\* handlers of the root logger are those it started with, then one StreamHandler
\* if it started with none at all, then one GWHandler, however many calls were
\* made: exactly one GWHandler, and a StreamHandler only if the root logger
\* started with no handler or with a StreamHandler.
C20_HandlersAddedOnlyWhenMissing ==
    WorkerInitDone =>
        /\ Kinds(root_logger.handlers) =
               root_logger.start
                   \o (IF root_logger.start = <<>> THEN <<"StreamHandler">> ELSE <<>>)
                   \o <<"GWHandler">>
        /\ CountKind(root_logger.handlers, "GWHandler") = 1
        /\ CountKind(root_logger.handlers, "StreamHandler") >= 1
               <=> (\/ root_logger.start = <<>>
                    \/ \E i \in DOMAIN root_logger.start :
                           root_logger.start[i] = "StreamHandler")

\* loggers_init(settings, "worker") has been called twice on a root logger that
\* started without handlers.
C20_WorkerInitTwiceFromNoHandlers ==
    /\ root_logger.worker >= 2
    /\ root_logger.start = <<>>
    /\ Kinds(root_logger.handlers) = <<"StreamHandler", "GWHandler">>

-----------------------------------------------------------------------------
(* Further properties of the S3 client pool, checked under PoolSpec *)

HasClient(r) == pc[r] \in {"using", "putting", "done", "raised"}

\* The clients constructed for queue q that are on the queue or held.
ClientsOf(q) ==
    {queues[q][k] : k \in DOMAIN queues[q]}
        \cup {client[r] : r \in {x \in Requests : Holding(x) /\ client[x][1] = q}}

\* The clients constructed for profile p, in whichever queue.
ClientsOfProfile(p) == UNION {ClientsOf(q) : q \in {x \in Requests : prof[x] = p}}

\* C21: once a profile has a pool, the clients constructed for the profile are
\* exactly the PoolSize clients of that pool, and a request that has received a
\* client received the one that was on top of the profile's registered queue (the
\* client put or constructed last among those available) at that moment.
C21_AcquireGetsTopOfProfilePool ==
    /\ \A p \in Profiles :
           s3_queues[p] # 0 =>
               ClientsOfProfile(p) = {<<s3_queues[p], k>> : k \in 1..PoolSize}
    /\ \A r \in Requests : HasClient(r) => client[r] = got[r]

\* The event loop keeps running ready tasks: while some holder's unit of work can
\* end one of them does, and while some getter can be woken one of them is.
PoolFairness ==
    /\ WF_vars(\E r \in Requests : \E ok \in BOOLEAN : Release(r, ok))
    /\ WF_vars(\E r \in Requests : Get(r))

PoolFairSpec == PoolSpec /\ PoolFairness

\* C22: a request that blocks in queue.get() eventually receives a client, and
\* queue.put in the finally clause never has to wait.
C22_BlockedAcquirerIsServed ==
    /\ \A r \in Requests : (pc[r] = "getting") ~> HasClient(r)
    /\ [](\A r \in Requests : pc[r] # "putting")

\* A request that found its queue empty and blocked now holds a client that
\* another request has put back.
C22_ServedAfterWaiting ==
    \E r \in waited :
        /\ pc[r] = "using"
        /\ \E h \in Requests \ {r} :
               pc[h] \in {"done", "raised"} /\ client[h] = client[r]

-----------------------------------------------------------------------------
(* Further properties of Publish.resolve_links, checked under Spec *)

\* Row i of `its` is a link item of publish p whose link_to names the web_uri of
\* another link item of p, and of no item that is not a link.
ChainLink(its, p, i) ==
    /\ its[i].publish_id = p
    /\ its[i].link_to # None
    /\ \E j \in RowIds(its) \ {i} :
           /\ its[j].publish_id = p
           /\ its[j].link_to # None
           /\ its[j].web_uri = its[i].link_to
    /\ \A k \in RowIds(its) :
           its[k].web_uri = its[i].link_to => its[k].link_to # None

\* C23: a resolve_links call on a publish that holds a link whose target is another
\* link raises, whatever the visiting order and whatever calls were made before
\* on the same session.
C23_ChainLinkAlwaysFails ==
    Resolved =>
        ((\E i \in RowIds(call.pre) : ChainLink(call.pre, call.publish, i))
            => call.raised)

\* C24: for the items of a session, every order in which the two queries may
\* return their rows gives resolve_links the same outcome: it raises or not, and
\* leaves the same object_key on every item.
C24_OutcomeIndependentOfOrder ==
    \A o1, o2 \in ResolveOrders(items) :
        /\ resolve_links(items, o1).raised = resolve_links(items, o2).raised
        /\ resolve_links(items, o1).items = resolve_links(items, o2).items

-----------------------------------------------------------------------------
(* Further properties of AutoindexEnricher and PublishContentFetcher, checked
   under IndexSpec *)

\* The item the run has added last: the one autoindex_items produced for the page
\* run.page of the current root.
LastAdded == items[run.base + run.added]

\* C25: the item produced for root R and a page with relative directory D has
\* web_uri R/__exodus_autoindex__ when D is empty and R/D/__exodus_autoindex__
\* otherwise, content_type text/html; charset=UTF-8, no link_to, and the
\* publish_id of the publish the run works on.
C25_IndexItemFields ==
    (InRoot /\ run.page > 0) =>
        LET R == run.uris[run.root]
            D == repoTree[R][run.page]
        IN  /\ LastAdded.web_uri =
                   (IF D = "" THEN R \o "/__exodus_autoindex__"
                    ELSE R \o "/" \o D \o "/__exodus_autoindex__")
            /\ LastAdded.content_type = "text/html; charset=UTF-8"
            /\ LastAdded.link_to = None
            /\ LastAdded.publish_id = run.publish

\* The run has just added the item of a page whose relative directory is not empty.
C25_AddedPageOfSubdirectory ==
    /\ InRoot
    /\ run.page = 2
    /\ repoTree[run.uris[run.root]][run.page] = "sub"
    /\ LastAdded.web_uri = run.uris[run.root] \o "/sub/__exodus_autoindex__"

\* C27: every index item a run has added to the session points at a key under
\* which the content of its page has been uploaded, also after a later upload of
\* the run has failed.
C27_AddedItemWasUploaded ==
    \A i \in 1..Len(items) :
        IsIndexItem(items[i]) =>
            \E o \in bucket : /\ o.key = items[i].object_key
                              /\ object_key(o.body) = items[i].object_key

\* A run has ended with a failed upload after it had uploaded and added the item
\* of an earlier page.
C27_UploadFailedAfterAnUpload ==
    /\ run.pc = "idle"
    /\ run.cause = "put_object"
    /\ run.added >= 1
    /\ LastAdded.object_key \in BucketKeys(bucket)

-----------------------------------------------------------------------------
(* worker/autoindex.py: PublishContentFetcher.__call__, with the response of
   get_object and what is done with its body *)

MaxFetchItems == 2

\* The first bytes of a gzip member, which are no valid UTF-8.
GzipMagic == "<1f8b>"

\* gzip.compress(text)
Gzip(text) == GzipMagic \o text

IsGzip(content) == StartsWith(content, GzipMagic)

\* gzip.decompress(content): raises BadGzipFile for bytes that are no gzip member
GzipDecompress(content) ==
    IF IsGzip(content)
    THEN [raised |-> FALSE, content |-> SubSeq(content, Len(GzipMagic) + 1, Len(content))]
    ELSE [raised |-> TRUE, content |-> ""]

\* content.decode("utf-8"): raises UnicodeDecodeError for compressed bytes
Utf8Decode(content) ==
    IF IsGzip(content)
    THEN [raised |-> TRUE, text |-> ""]
    ELSE [raised |-> FALSE, text |-> content]

\* Mutant of ShouldDecompress: the content type of the response is not looked at.
DecompressAnyGz(uri, content_type) == EndsWith(uri, ".gz")

\* uri.endswith(".gz") and content_type in (...)
ShouldDecompress(uri, content_type) ==
    /\ EndsWith(uri, ".gz")
    /\ content_type \in {"binary/octet-stream", "application/octet-stream",
                         "application/x-gzip"}

\* What __call__ does with the response: decompress by the rule above, then decode.
ReadResponse(uri, object) ==
    LET decompress == ShouldDecompress(uri, object.content_type)
        unzipped   == GzipDecompress(object.body)
        content    == IF decompress THEN unzipped.content ELSE object.body
        decoded    == Utf8Decode(content)
        raised     == (decompress /\ unzipped.raised) \/ decoded.raised
    IN  [decompress |-> decompress,
         out        |-> IF raised THEN "raised" ELSE decoded.text]

\* Request bodies of a publish whose repository has compressed metadata, some of
\* its paths being deleted by the key "absent".
FetchInputs ==
    [web_uri      : {"/r/repodata/repomd.xml", "/r/repodata/primary.xml.gz"},
     object_key   : {K1, "absent"},
     content_type : {""},
     link_to      : {""}]

FetchRows == {ItemRow(BuiltPublish, inp) : inp \in Accepted(FetchInputs)}

RECURSIVE SeqsUpTo(_, _)
SeqsUpTo(S, n) ==
    IF n = 0 THEN {<<>>}
    ELSE SeqsUpTo(S, n - 1)
             \cup {Append(q, x) : q \in {t \in SeqsUpTo(S, n - 1) : Len(t) = n - 1},
                                  x \in S}

\* The objects the bucket may hold under K1: metadata stored plain or compressed,
\* with the content type the backend reports for it.
FetchObjects ==
    [key          : {K1},
     body         : {"<metadata/>", Gzip("<metadata/>")},
     content_type : {"binary/octet-stream", "application/octet-stream",
                     "application/x-gzip", "application/xml"}]

ObjectAt(objects, key) == CHOOSE o \in objects : o.key = key

\* PublishContentFetcher.__call__(uri) on publish p, `i` being the row the query
\* returns first when it returns any; get_object raises when the bucket has no
\* such key and may raise for any other reason (ok is FALSE then).
Fetch(p, uri, i, ok) ==
    /\ LET matched == Matched(items, p, uri)
           none    == [uri |-> uri, row |-> 0, key |-> NoRequestKey, out |-> "None",
                       content_type |-> "", body |-> "", decompress |-> FALSE]
       IN  IF matched = {}
           THEN run' = [run EXCEPT !.fetch = none]
           ELSE /\ i \in matched
                /\ LET key == items[i].object_key
                   IN  IF ok /\ key \in BucketKeys(bucket)
                       THEN LET object == ObjectAt(bucket, key)
                                read   == ReadResponse(uri, object)
                            IN  run' = [run EXCEPT !.fetch =
                                           [uri |-> uri, row |-> i, key |-> key,
                                            out |-> read.out,
                                            content_type |-> object.content_type,
                                            body |-> object.body,
                                            decompress |-> read.decompress]]
                       ELSE run' = [run EXCEPT !.fetch =
                                       [none EXCEPT !.row = i, !.key = key,
                                                    !.out = "raised"]]
    /\ UNCHANGED <<items, call, poolVars, bucket, repoTree, hist, auxVars>>

FetchInit ==
    /\ items \in SeqsUpTo(FetchRows, MaxFetchItems)
    /\ call = NoCall
    /\ PoolIdle
    /\ bucket \in {{}} \cup {{o} : o \in FetchObjects}
    /\ repoTree = [root \in Roots |-> <<>>]
    /\ run = NoRun
    /\ hist = [p \in Publishes |-> "none"]
    /\ AuxIdle

FetchNext ==
    \E uri \in FetchTargets \cup {"/r/repodata/primary.xml.gz"} :
        \E i \in 1..Len(items) : \E ok \in BOOLEAN : Fetch(BuiltPublish, uri, i, ok)

FetchSpec == FetchInit /\ [][FetchNext]_vars

-----------------------------------------------------------------------------
(* Properties of PublishContentFetcher.__call__, checked under FetchSpec *)

\* get_object has returned a response to the last fetch.
GotResponse == Fetched /\ run.fetch.content_type # ""

OctetStreamTypes == {"binary/octet-stream", "application/octet-stream"}

\* C26: the fetched bytes are decompressed exactly when the URI ends with .gz and
\* the backend reports an octet-stream content type; otherwise they are decoded
\* as they are.
C26_DecompressedIffGzAndOctetStream ==
    GotResponse =>
        /\ run.fetch.decompress <=>
               (EndsWith(run.fetch.uri, ".gz")
                    /\ run.fetch.content_type \in OctetStreamTypes)
        /\ (~run.fetch.decompress /\ run.fetch.out # "raised") =>
               run.fetch.out = run.fetch.body

\* C26, amended: the fetched bytes are decompressed exactly when the URI ends with
\* .gz and the backend reports binary/octet-stream, application/octet-stream or
\* application/x-gzip; what is returned is then the text that was compressed, and
\* otherwise the bytes as they were stored.
C26_DecompressedIffGzAndBinaryType ==
    GotResponse =>
        /\ run.fetch.decompress <=>
               (EndsWith(run.fetch.uri, ".gz")
                    /\ run.fetch.content_type
                           \in OctetStreamTypes \cup {"application/x-gzip"})
        /\ (run.fetch.decompress /\ run.fetch.out # "raised") =>
               Gzip(run.fetch.out) = run.fetch.body
        /\ (~run.fetch.decompress /\ run.fetch.out # "raised") =>
               run.fetch.out = run.fetch.body

\* A compressed object stored as application/x-gzip has been fetched at a URI that
\* ends with .gz, and its text returned.
C26_FetchedGzippedMetadata ==
    /\ GotResponse
    /\ EndsWith(run.fetch.uri, ".gz")
    /\ run.fetch.content_type = "application/x-gzip"
    /\ IsGzip(run.fetch.body)
    /\ run.fetch.out = "<metadata/>"

\* C28: every get_object request of the fetcher carries a key that is a content
\* digest, never "absent" and never an unset key, whichever of the rows matching
\* the URI the query returns first.
C28_RequestedKeyIsADigest ==
    (Fetched /\ run.fetch.row # 0) =>
        /\ run.fetch.key \notin {"absent", None, ""}
        /\ IsSha256Hex(run.fetch.key)

-----------------------------------------------------------------------------
(* dramatiq/middleware/log_actor.py: PrefixFilter, LogActorMiddleware *)

MaxDepth == 2

MaxActorCalls == 3

\* ContextVar.get(default)
ContextVarGet(value, default) == IF value = Unset THEN default ELSE value

\* ContextVar.set(new): the new value, and a token that holds the value before
\* (or that there was none)
ContextVarSet(value, new) == [value |-> new, token |-> value]

\* Mutant of ContextVarReset: the variable keeps the value it has.
ContextVarResetLost(value, token) == value

\* ContextVar.reset(token): the value the variable had before the set that
\* created the token
ContextVarReset(value, token) == token

\* The wrapped actors, the keyword arguments they are called with, and the
\* message CurrentMessage.get_current_message() returns (None when there is none).
ActorNames == {"commit"}

ActorKwargs ==
    UNION {[keys -> {"id1"}] : keys \in SUBSET {"publish_id", "task_id", "env"}}

CurrentMessages == {None, "m1"}

\* prefix = fn.__name__, then the first of publish_id and task_id among kwargs
ActorPrefix(name, kwargs) ==
    LET shown == IF "publish_id" \in DOMAIN kwargs
                 THEN name \o " " \o kwargs["publish_id"]
                 ELSE IF "task_id" \in DOMAIN kwargs
                 THEN name \o " " \o kwargs["task_id"]
                 ELSE name
    IN  "[" \o shown \o "] "

\* LOG.info(msg) with PrefixFilter.filter applied to the record
LogInfo(a, msg) ==
    [a EXCEPT !.log = Append(@, [msg        |-> ContextVarGet(a.prefix, "") \o msg,
                                 message_id |-> ContextVarGet(a.message, None)])]

\* new_fn is called, by the worker or by the actor that is running: it sets both
\* variables, logs "Starting" and calls fn.
ActorCall(name, kwargs, message) ==
    /\ Len(actor.stack) < MaxDepth
    /\ actor.calls < MaxActorCalls
    /\ LET message_id == IF message # None THEN message ELSE ""
           m  == ContextVarSet(actor.message, message_id)
           p  == ContextVarSet(actor.prefix, ActorPrefix(name, kwargs))
           a1 == [actor EXCEPT !.message = m.value, !.prefix = p.value,
                               !.calls = @ + 1,
                               !.stack = Append(@, [message_token |-> m.token,
                                                    prefix_token  |-> p.token,
                                                    pre |-> <<actor.prefix,
                                                              actor.message>>])]
       IN  actor' = LogInfo(a1, "Starting")
    /\ UNCHANGED <<linkVars, poolVars, indexVars, state, req, root_logger>>

\* The finally clause of the innermost call in progress
ActorFinally(a, kind) ==
    LET frame   == Last(a.stack)
        message == ContextVarReset(a.message, frame.message_token)
        prefix  == ContextVarReset(a.prefix, frame.prefix_token)
    IN  [a EXCEPT !.message = message, !.prefix = prefix,
                  !.stack = SubSeq(@, 1, Len(@) - 1),
                  !.finished = [kind |-> kind, pre |-> frame.pre,
                                post |-> <<prefix, message>>]]

\* fn returns: "Completed" is logged, the finally clause runs, new_fn returns.
ActorReturn ==
    /\ actor.stack # <<>>
    /\ actor' = ActorFinally([LogInfo(actor, "Completed") EXCEPT !.returned = @ + 1],
                             "returned")
    /\ UNCHANGED <<linkVars, poolVars, indexVars, state, req, root_logger>>

\* fn raises: the finally clause runs and the exception leaves new_fn, into the
\* worker or into the actor that called it.
ActorRaise ==
    /\ actor.stack # <<>>
    /\ actor' = ActorFinally(actor, "raised")
    /\ UNCHANGED <<linkVars, poolVars, indexVars, state, req, root_logger>>

ActorInit == LinkIdle /\ PoolIdle /\ IndexIdle /\ AuxIdle

ActorNext ==
    \/ \E name \in ActorNames : \E kwargs \in ActorKwargs :
           \E message \in CurrentMessages : ActorCall(name, kwargs, message)
    \/ ActorReturn
    \/ ActorRaise

ActorSpec == ActorInit /\ [][ActorNext]_vars

-----------------------------------------------------------------------------
(* Properties of LogActorMiddleware.wrap_fn_with_prefix, checked under ActorSpec *)

\* The number of records of the log whose message is `word` after its prefix.
CountLogged(word) ==
    Cardinality({i \in DOMAIN actor.log : EndsWith(actor.log[i].msg, word)})

\* C29: a wrapped call that has ended, by returning or by raising, nested in
\* another or not, has left CURRENT_PREFIX and CURRENT_MESSAGE as they were when
\* it was made; "Starting" has been logged once per call made and "Completed"
\* once per call that returned.
C29_ContextRestoredAndCallsLogged ==
    /\ actor.finished.kind # "none" => actor.finished.post = actor.finished.pre
    /\ actor.stack = <<>> => (actor.prefix = Unset /\ actor.message = Unset)
    /\ CountLogged("Starting") = actor.calls
    /\ CountLogged("Completed") = actor.returned

\* A call nested in a call with another prefix has raised: the outer call is still
\* in progress and no "Completed" has been logged.
C29_NestedCallRaised ==
    /\ actor.finished.kind = "raised"
    /\ Len(actor.stack) = 1
    /\ actor.prefix = "[commit id1] "
    /\ actor.log[Len(actor.log)].msg = "[commit] Starting"
    /\ CountLogged("Completed") = 0

====
